---- MODULE Spec2Model ----
(***************************************************************************)
(* Attendance analysis (Calculate_working_hours.py): the holiday calendar  *)
(* with its persistent store, cache and refresh, the time arithmetic, the  *)
(* per-record classifier and the aggregation over an attendance sheet.     *)
(*                                                                         *)
(* Encoding of Python values:                                              *)
(*   - a string is a tuple of character tokens; a Chinese character is    *)
(*     written as its pinyin ("ci" in "2ci", the two-punch label) and the  *)
(*     next-day marker ("ciri") is one token;                              *)
(*   - an empty spreadsheet cell (pandas NaN) is the tuple NaN;            *)
(*   - a date object is a tuple <<year, month, day>>; None is <<>>;        *)
(*   - a time object is its minute of the day, None is NoTime;             *)
(*   - a call that raises returns a record with raised = TRUE.             *)
(***************************************************************************)
EXTENDS Integers, Sequences, FiniteSets, TLC

VARIABLES
    db,          \* committed rows of table holidays (holidays.db)
    cache,       \* holiday_cache/holiday_<year>.json per year, or NoData
    holidays,    \* HolidayCalendar.holidays
    workdays,    \* HolidayCalendar.workdays
    today,       \* date.today() / datetime.now()
    pc,          \* position of force_update
    txn,         \* rows as seen by force_update's open connection
    pre,         \* store and sets when the running force_update began
    failed,      \* years whose fetch or store write failed in the running force_update
    call,        \* the last call made and what it returned
    shown        \* the message box the window shows

vars == <<db, cache, holidays, workdays, today, pc, txn, pre, failed, call, shown>>

calVars == <<db, cache, holidays, workdays, pc, txn, pre, failed, shown>>

-----------------------------------------------------------------------------
(* Python values *)

NaN == <<"NaN">>

None == <<>>

NoTime == 0 - 1

isna(x) == x = NaN

\* str(x) of a cell: str(float('nan')) is "nan", a string is itself
str(x) == IF isna(x) THEN <<"n", "a", "n">> ELSE x

NEXT_DAY == "ciri"

TWO_PUNCH == <<"2", "ci">>

ONE_PUNCH == <<"1", "ci">>

NORMAL == <<"zheng", "chang">>

ABNORMAL == <<"yi", "chang">>

-----------------------------------------------------------------------------
(* TimeConfig *)

WORK_START == 8 * 60 + 30

WORK_LATE == 9 * 60 + 30

WORK_END == 18 * 60

WORK_END_FLEX == 18 * 60 + 30

STANDARD_WORK_MINUTES == 570

OVERTIME_WORK_MINUTES == 600

-----------------------------------------------------------------------------
(* datetime.date *)

IsLeap(y) == (y % 4 = 0) /\ ((y % 100 # 0) \/ (y % 400 = 0))

DaysInMonth(y, m) ==
    IF m = 2 THEN (IF IsLeap(y) THEN 29 ELSE 28)
    ELSE IF m \in {4, 6, 9, 11} THEN 30 ELSE 31

RECURSIVE DaysBeforeMonth(_, _)
DaysBeforeMonth(y, m) ==
    IF m = 1 THEN 0 ELSE DaysBeforeMonth(y, m - 1) + DaysInMonth(y, m - 1)

DaysBeforeYear(y) ==
    (y - 1) * 365 + ((y - 1) \div 4) - ((y - 1) \div 100) + ((y - 1) \div 400)

toordinal(d) == DaysBeforeYear(d[1]) + DaysBeforeMonth(d[1], d[2]) + d[3]

\* date.weekday(): Monday is 0, Sunday is 6
weekday(d) == (toordinal(d) + 6) % 7

IsValidDate(t) ==
    /\ Len(t) = 3
    /\ t[1] \in 1..9999
    /\ t[2] \in 1..12
    /\ t[3] \in 1..DaysInMonth(t[1], t[2])

\* d1 < d2 on date objects
DateLess(d1, d2) ==
    \/ d1[1] < d2[1]
    \/ d1[1] = d2[1] /\ d1[2] < d2[2]
    \/ d1[1] = d2[1] /\ d1[2] = d2[2] /\ d1[3] < d2[3]

\* datetime.strptime(tok, '%Y/%m/%d').date() of a sheet's date token, given
\* as its numeric fields: the date, or raised when it names no calendar day
parse_date(tok) ==
    IF IsValidDate(tok) THEN [raised |-> FALSE, date |-> tok]
    ELSE [raised |-> TRUE, date |-> None]

-----------------------------------------------------------------------------
(* TimeParser *)

Digits == <<"0", "1", "2", "3", "4", "5", "6", "7", "8", "9">>

IsDigit(c) == \E i \in 1..10 : Digits[i] = c

DigitVal(c) == (CHOOSE i \in 1..10 : Digits[i] = c) - 1

\* the value of one or two digits, NoTime for anything else
Number(s) ==
    IF Len(s) = 1 /\ IsDigit(s[1]) THEN DigitVal(s[1])
    ELSE IF Len(s) = 2 /\ IsDigit(s[1]) /\ IsDigit(s[2])
         THEN 10 * DigitVal(s[1]) + DigitVal(s[2])
         ELSE NoTime

\* datetime.strptime(s, '%H:%M'): one or two digits of hour (0..23), a
\* colon, one or two digits of minute (0..59), nothing else; the minute of
\* the day, or NoTime where strptime raises ValueError
strptime(s) ==
    LET colons == {i \in 1..Len(s) : s[i] = ":"}
    IN  IF Cardinality(colons) # 1 THEN NoTime
        ELSE LET c == CHOOSE i \in colons : TRUE
                 h == Number(SubSeq(s, 1, c - 1))
                 m == Number(SubSeq(s, c + 1, Len(s)))
             IN  IF h \in 0..23 /\ m \in 0..59 THEN h * 60 + m ELSE NoTime

\* TimeParser.parse_time: the time, or None (NoTime) on ValueError
parse_time(time_str) == strptime(time_str)

\* NEXT_DAY in s
HasNextDay(s) == \E i \in 1..Len(s) : s[i] = NEXT_DAY

\* s.replace(NEXT_DAY, "")
StripNextDay(s) == SelectSeq(s, LAMBDA c : c # NEXT_DAY)

\* TimeParser.parse_next_day_time: hour * 60 + minute, raises on ValueError
parse_next_day_time(time_str) ==
    LET t == strptime(StripNextDay(time_str))
    IN  IF t = NoTime THEN [raised |-> TRUE, value |-> 0]
        ELSE [raised |-> FALSE, value |-> t]

\* TimeParser.compute_minutes: end - start in minutes, raises on ValueError
compute_minutes(start_time, end_time) ==
    LET s == strptime(start_time)
        e == strptime(end_time)
    IN  IF s = NoTime \/ e = NoTime THEN [raised |-> TRUE, value |-> 0]
        ELSE [raised |-> FALSE, value |-> e - s]

-----------------------------------------------------------------------------
(* HolidayCalendar.is_workday *)

\* a faulty variant: the compensatory set is looked up before the holiday set
is_workday_workdays_first(date_obj) ==
    IF date_obj \in workdays THEN TRUE
    ELSE IF date_obj \in holidays THEN FALSE
    ELSE weekday(date_obj) < 5

is_workday(date_obj) ==
    IF date_obj \in holidays THEN FALSE
    ELSE IF date_obj \in workdays THEN TRUE
    ELSE weekday(date_obj) < 5

-----------------------------------------------------------------------------
(* HolidayCalendar: store, cache, load on start *)

\* a date string of the store or of a payload, split at "-": <<m, d>> for
\* "MM-DD", <<y, m, d>> for "YYYY-MM-DD"
\* f"{year}-{date_str}" when the string has two parts
CompleteDate(date_str, year) ==
    IF Len(date_str) = 2 THEN <<year>> \o date_str ELSE date_str

HOLIDAY == "holiday"

WORKDAY == "workday"

\* 'holiday' if info['holiday'] else 'workday'
TypeOf(info) == IF info.holiday THEN HOLIDAY ELSE WORKDAY

Row(date_str, info, year) ==
    [date |-> date_str, type |-> TypeOf(info), description |-> info.name,
     year |-> year]

\* INSERT OR REPLACE INTO holidays: date is the PRIMARY KEY
InsertOrReplace(store, row) == {r \in store : r.date # row.date} \cup {row}

RECURSIVE ExecuteMany(_, _)
ExecuteMany(store, rows) ==
    IF rows = <<>> THEN store
    ELSE ExecuteMany(InsertOrReplace(store, Head(rows)), Tail(rows))

\* range(current_year - 1, current_year + 2)
current_year == today[1]

Years == <<current_year - 1, current_year, current_year + 1>>

\* a cache file that does not exist, and one that holds a payload
NoData == [exists |-> FALSE, data |-> <<>>]

Cached(data) == [exists |-> TRUE, data |-> data]

\* the rows _save_to_database builds from a payload: a two-part date string
\* is completed with the year, a string that is no date is skipped
RECURSIVE SaveRows(_, _)
SaveRows(year, data) ==
    IF data = <<>> THEN <<>>
    ELSE LET e == Head(data)
             date_str == CompleteDate(e.date_str, year)
         IN  IF IsValidDate(date_str)
             THEN <<Row(date_str, e, year)>> \o SaveRows(year, Tail(data))
             ELSE SaveRows(year, Tail(data))

\* _save_to_database
save_to_database(store, year, data) == ExecuteMany(store, SaveRows(year, data))

\* the rows force_update builds from a payload: the date strings as fetched
RECURSIVE UpdateRows(_, _)
UpdateRows(year, data) ==
    IF data = <<>> THEN <<>>
    ELSE <<Row(Head(data).date_str, Head(data), year)>> \o UpdateRows(year, Tail(data))

\* SELECT date, type FROM holidays WHERE year = ? AND type IN (holiday, workday)
SelectYear(store, year) ==
    {r \in store : r.year = year /\ r.type \in {HOLIDAY, WORKDAY}}

\* the dates _load_from_database adds for one type: a two-part date string is
\* completed with the year, a string that is no date is skipped
LoadedDates(results, year, type) ==
    {CompleteDate(r.date, year) :
        r \in {x \in results : x.type = type
                               /\ IsValidDate(CompleteDate(x.date, year))}}

\* _load_from_database: adds to the two sets in place, False when no row
load_from_database(store, year, h, w) ==
    LET results == SelectYear(store, year)
    IN  IF results = {} THEN [found |-> FALSE, holidays |-> h, workdays |-> w]
        ELSE [found |-> TRUE,
              holidays |-> h \cup LoadedDates(results, year, HOLIDAY),
              workdays |-> w \cup LoadedDates(results, year, WORKDAY)]

\* one year of _load_all_data: the store, else the cache promoted to the store
LoadOneYear(st, year) ==
    LET l == load_from_database(st.db, year, st.holidays, st.workdays)
    IN  IF l.found
        THEN [st EXCEPT !.holidays = l.holidays, !.workdays = l.workdays]
        ELSE IF ~st.cache[year].exists THEN st
        ELSE LET saved == save_to_database(st.db, year, st.cache[year].data)
                 l2 == load_from_database(saved, year, st.holidays, st.workdays)
             IN  [st EXCEPT !.db = saved, !.holidays = l2.holidays,
                            !.workdays = l2.workdays]

RECURSIVE LoadYears(_, _)
LoadYears(st, years) ==
    IF years = <<>> THEN st
    ELSE LoadYears(LoadOneYear(st, Head(years)), Tail(years))

\* __init__ of a new process on the store and cache on disk: empty sets, then
\* _load_all_data
load_all_data(store, files) ==
    LoadYears([db |-> store, cache |-> files, holidays |-> {}, workdays |-> {}],
              Years)

-----------------------------------------------------------------------------
(* AttendanceAnalyzer: one record *)

\* a faulty variant: the end time is compared with WORK_END whatever the target
is_before_time_work_end(time_str, target) ==
    LET time_obj == parse_time(time_str)
    IN  time_obj # NoTime /\ time_obj <= WORK_END

\* _is_before_time: time_obj and time_obj <= target (None is falsy)
is_before_time(time_str, target) ==
    LET time_obj == parse_time(time_str)
    IN  time_obj # NoTime /\ time_obj <= target

\* a faulty variant: an arrival at WORK_START itself counts as late
is_late_from_start(time_str) ==
    LET time_obj == parse_time(time_str)
    IN  time_obj # NoTime /\ WORK_START <= time_obj /\ time_obj <= WORK_LATE

\* _is_late: time_obj and WORK_START < time_obj <= WORK_LATE
is_late(time_str) ==
    LET time_obj == parse_time(time_str)
    IN  time_obj # NoTime /\ WORK_START < time_obj /\ time_obj <= WORK_LATE

Raise == [raised |-> TRUE, value |-> 0]

Return(v) == [raised |-> FALSE, value |-> v]

\* _calculate_overtime
calculate_overtime(start_time, end_time, workday) ==
    IF ~workday THEN Return(0)
    ELSE IF HasNextDay(end_time)
    THEN LET n == parse_next_day_time(end_time)
             c == compute_minutes(start_time, <<"2", "3", ":", "5", "9">>)
         IN  IF n.raised \/ c.raised THEN Raise
             ELSE Return(n.value + 1 + c.value - OVERTIME_WORK_MINUTES)
    ELSE IF is_before_time(end_time, WORK_END_FLEX)
    THEN LET c == compute_minutes(start_time, <<"1", "8", ":", "0", "0">>)
         IN  IF c.raised THEN Raise
             ELSE Return(c.value - STANDARD_WORK_MINUTES)
    ELSE LET c == compute_minutes(start_time, end_time)
         IN  IF c.raised THEN Raise
             ELSE Return(c.value - OVERTIME_WORK_MINUTES)

RecordRaise == [raised |-> TRUE, overtime |-> 0, late |-> FALSE, missing |-> None]

Outcome(o, l, m) == [raised |-> FALSE, overtime |-> o, late |-> l, missing |-> m]

\* a faulty variant: the date is flagged also when it is today
MissingAlways(date_obj) == date_obj

\* date_obj if date_obj != date.today() else None
MissingUnlessToday(date_obj) == IF date_obj # today THEN date_obj ELSE None

\* a faulty variant: the record counts as still open only on the current date
still_at_work_today(date_obj, start_time, end_time) ==
    date_obj = today /\ end_time = start_time

\* the first test of _process_record: end_time == start_time, whatever the date
still_at_work(date_obj, start_time, end_time) == end_time = start_time

\* _process_record
process_record(row) ==
    LET d == parse_date(row.date)
        start_time == row.start_time
        end_time == str(row.end_time)
        work_status == row.work_status
        punch_count == row.punch_count
    IN  IF d.raised THEN RecordRaise
        ELSE LET date_obj == d.date
                 workday == is_workday(date_obj)
             IN  IF still_at_work(date_obj, start_time, end_time)
                 THEN Outcome(0, FALSE, None)
                 ELSE IF work_status # NORMAL
                         \/ (~isna(punch_count) /\ punch_count # TWO_PUNCH)
                 THEN Outcome(0, FALSE, MissingUnlessToday(date_obj))
                 ELSE IF isna(start_time) \/ isna(end_time)
                 THEN Outcome(0, FALSE, MissingUnlessToday(date_obj))
                 ELSE LET o == calculate_overtime(start_time, end_time, workday)
                      IN  IF o.raised THEN RecordRaise
                          ELSE Outcome(o.value,
                                       IF workday THEN is_late(start_time) ELSE FALSE,
                                       None)

-----------------------------------------------------------------------------
(* AttendanceAnalyzer.analyze_attendance *)

HEADER_ROWS == 3

\* a row of the sheet above the records (titles, column names)
HeaderRow == [date |-> None, name |-> <<>>, start_time |-> NaN, end_time |-> NaN,
              punch_count |-> NaN, work_status |-> NaN]

Reverse(s) == [i \in 1..Len(s) |-> s[Len(s) + 1 - i]]

\* a faulty variant: the records are read in the order of the sheet
selected_data_in_order(df) == SubSeq(df, HEADER_ROWS + 1, Len(df))

\* df.iloc[3:, [0, 8, 9, 10, 14]].iloc[::-1]
selected_data(df) == Reverse(SubSeq(df, HEADER_ROWS + 1, Len(df)))

\* list.sort(reverse=True) on dates
RECURSIVE InsertDesc(_, _)
InsertDesc(s, d) ==
    IF s = <<>> THEN <<d>>
    ELSE IF DateLess(Head(s), d) THEN <<d>> \o s
    ELSE <<Head(s)>> \o InsertDesc(Tail(s), d)

RECURSIVE SortDesc(_)
SortDesc(s) == IF s = <<>> THEN <<>> ELSE InsertDesc(SortDesc(Tail(s)), Head(s))

\* f"{date_obj.month:02d}"
FormatMonth(m) == <<Digits[(m \div 10) + 1], Digits[(m % 10) + 1]>>

\* has_actual_punch
has_actual_punch(row) ==
    /\ ~isna(row.start_time)
    /\ ~isna(row.end_time)
    /\ str(row.start_time) # str(row.end_time)

\* a faulty variant: a two-punch row counts on any day, whatever its times
is_valid_day_any_times(row, workday) ==
    ~isna(row.punch_count) /\ row.punch_count = TWO_PUNCH

\* the test that counts a row as a valid punch day
is_valid_day(row, workday) ==
    /\ ~isna(row.punch_count)
    /\ row.punch_count = TWO_PUNCH
    /\ (workday \/ (~workday /\ has_actual_punch(row)))

Totals0 == [raised |-> FALSE, total_overtime |-> 0, missing_clockout |-> <<>>,
            late_count |-> 0, valid_days |-> 0]

\* a faulty variant: only overtime above the required minutes is added
Accumulate_surplus_only(acc, row, d, r) ==
    IF acc.raised \/ d.raised \/ r.raised THEN [acc EXCEPT !.raised = TRUE]
    ELSE LET workday == is_workday(d.date)
         IN  [raised |-> FALSE,
              total_overtime |->
                  IF workday /\ r.overtime > 0 THEN acc.total_overtime + r.overtime
                  ELSE acc.total_overtime,
              late_count |->
                  IF workday /\ r.late THEN acc.late_count + 1
                  ELSE acc.late_count,
              missing_clockout |->
                  IF r.missing # None
                  THEN Append(acc.missing_clockout, r.missing)
                  ELSE acc.missing_clockout,
              valid_days |->
                  IF is_valid_day(row, workday) THEN acc.valid_days + 1
                  ELSE acc.valid_days]

\* the body of the loop once the row's date and its outcome are known
Accumulate(acc, row, d, r) ==
    IF acc.raised \/ d.raised \/ r.raised THEN [acc EXCEPT !.raised = TRUE]
    ELSE LET workday == is_workday(d.date)
         IN  [raised |-> FALSE,
              total_overtime |->
                  IF workday THEN acc.total_overtime + r.overtime
                  ELSE acc.total_overtime,
              late_count |->
                  IF workday /\ r.late THEN acc.late_count + 1
                  ELSE acc.late_count,
              missing_clockout |->
                  IF r.missing # None
                  THEN Append(acc.missing_clockout, r.missing)
                  ELSE acc.missing_clockout,
              valid_days |->
                  IF is_valid_day(row, workday) THEN acc.valid_days + 1
                  ELSE acc.valid_days]

\* one iteration of the loop over selected_data
LoopStep(acc, row) == Accumulate(acc, row, parse_date(row.date), process_record(row))

RECURSIVE Loop(_, _, _)
Loop(rows, i, acc) ==
    IF i > Len(rows) THEN acc
    ELSE Loop(rows, i + 1, LoopStep(acc, rows[i]))

AnalyzeRaise ==
    [raised |-> TRUE, name |-> <<>>, month |-> <<>>,
     overtime_hours |-> [num |-> 0, den |-> 60], missing_clockout_dates |-> <<>>,
     late_count |-> 0, start_date |-> None, end_date |-> None, valid_days |-> 0]

\* name and month of the report: "" for both when the first record of the
\* sheet has no date to read
NameAndMonth(df, d) ==
    IF d.raised THEN [name |-> <<>>, month |-> <<>>]
    ELSE [name |-> df[HEADER_ROWS + 1].name, month |-> FormatMonth(d.date[2])]

\* the AttendanceResult, or the exception that left the loop or the dates
Report(head, first, last, acc) ==
    IF first.raised \/ last.raised \/ acc.raised THEN AnalyzeRaise
    ELSE [raised |-> FALSE, name |-> head.name, month |-> head.month,
          overtime_hours |-> [num |-> acc.total_overtime, den |-> 60],
          missing_clockout_dates |-> SortDesc(acc.missing_clockout),
          late_count |-> acc.late_count,
          start_date |-> first.date,
          end_date |-> last.date,
          valid_days |-> acc.valid_days]

\* the steps of analyze_attendance on the reversed records
AnalyzeRows(df, rows) ==
    IF Len(rows) = 0 THEN AnalyzeRaise
    ELSE Report(NameAndMonth(df, parse_date(df[HEADER_ROWS + 1].date)),
                parse_date(rows[1].date),
                parse_date(rows[Len(rows)].date),
                Loop(rows, 1, Totals0))

\* analyze_attendance on the sheet df (the rows pd.read_excel returns)
analyze_attendance(df) == AnalyzeRows(df, selected_data(df))

-----------------------------------------------------------------------------
(* Inputs *)

\* "HH:MM" of hour h and minute m
Fmt(h, m) ==
    <<Digits[(h \div 10) + 1], Digits[(h % 10) + 1], ":",
      Digits[(m \div 10) + 1], Digits[(m % 10) + 1]>>

ClockTimes ==
    {<<0, 0>>, <<0, 30>>, <<8, 30>>, <<8, 31>>, <<8, 40>>, <<9, 0>>, <<9, 30>>,
     <<9, 31>>, <<13, 0>>, <<18, 0>>, <<18, 15>>, <<18, 30>>, <<18, 31>>,
     <<21, 15>>,
     <<23, 59>>}

NextDayTimes == {<<0, 0>>, <<0, 30>>, <<2, 15>>}

\* strings strptime accepts without a leading zero, and strings it rejects
ShortStrings == {<<"8", ":", "3", "0">>, <<"9", ":", "5">>}

BadStrings ==
    {<<"2", "5", ":", "0", "0">>, <<"0", "8", ":", "6", "0">>,
     <<"0", "8", "3", "0">>, <<"n", "a", "n">>, <<>>}

StartStrings ==
    {Fmt(t[1], t[2]) : t \in ClockTimes} \cup ShortStrings \cup BadStrings

EndStrings ==
    StartStrings \cup {<<NEXT_DAY>> \o Fmt(t[1], t[2]) : t \in NextDayTimes}
                 \cup {<<NEXT_DAY>> \o <<"2", "5", ":", "0", "0">>}

Monday == <<2024, 3, 4>>

Tuesday == <<2024, 3, 5>>

Saturday == <<2024, 3, 9>>

NextMonday == <<2024, 3, 11>>

NoSuchDay == <<2024, 2, 30>>

EMPLOYEE == <<"w", "a", "n", "g">>

Record(d, s, e, p, w) ==
    [date |-> d, name |-> EMPLOYEE, start_time |-> s, end_time |-> e,
     punch_count |-> p, work_status |-> w]

\* the records _process_record is tried on
RecordDates == {Monday, Tuesday, Saturday, NoSuchDay}

RecordStarts ==
    {Fmt(8, 30), Fmt(8, 31), Fmt(9, 30), Fmt(9, 31), Fmt(18, 0),
     <<"2", "5", ":", "0", "0">>, NaN}

RecordEnds ==
    {Fmt(8, 30), Fmt(18, 0), Fmt(18, 30), Fmt(18, 31), <<NEXT_DAY>> \o Fmt(0, 30),
     <<"2", "5", ":", "0", "0">>, NaN}

PunchCounts == {TWO_PUNCH, ONE_PUNCH, NaN}

WorkStatuses == {NORMAL, ABNORMAL, NaN}

Records ==
    {Record(d, s, e, p, w) :
        d \in RecordDates, s \in RecordStarts, e \in RecordEnds,
        p \in PunchCounts, w \in WorkStatuses}

\* the records the sheets given to analyze_attendance are made of
SheetRecords ==
    {Record(Monday, Fmt(8, 40), Fmt(18, 0), TWO_PUNCH, NORMAL),
     Record(Tuesday, Fmt(9, 31), <<NEXT_DAY>> \o Fmt(0, 30), TWO_PUNCH, NORMAL),
     Record(Saturday, Fmt(9, 0), Fmt(13, 0), TWO_PUNCH, NORMAL),
     Record(Saturday, Fmt(9, 0), Fmt(9, 0), TWO_PUNCH, NORMAL),
     Record(Monday, Fmt(8, 30), Fmt(8, 30), ONE_PUNCH, ABNORMAL),
     Record(Tuesday, Fmt(8, 30), NaN, ONE_PUNCH, ABNORMAL),
     Record(Saturday, NaN, NaN, NaN, ABNORMAL),
     Record(Monday, NaN, NaN, TWO_PUNCH, ABNORMAL),
     Record(Saturday, NaN, Fmt(18, 0), TWO_PUNCH, NORMAL),
     Record(Tuesday, Fmt(8, 40), NaN, TWO_PUNCH, NORMAL),
     Record(NoSuchDay, Fmt(8, 40), Fmt(18, 0), TWO_PUNCH, NORMAL)}

MaxRecords == 2

RECURSIVE SeqsUpTo(_, _)
SeqsUpTo(S, n) ==
    IF n = 0 THEN {<<>>}
    ELSE LET shorter == SeqsUpTo(S, n - 1)
         IN  shorter \cup {Append(q, x) : q \in shorter, x \in S}

\* a sheet: the rows above the records, then the records
Sheets ==
    {[i \in 1..HEADER_ROWS |-> HeaderRow] \o q : q \in SeqsUpTo(SheetRecords, MaxRecords)}

\* the days date.today() is drawn from
Todays == {Tuesday, NextMonday}

\* rows a store may hold when the program starts
NoInfoName == <<>>

StoredRows ==
    {[date |-> Tuesday, type |-> HOLIDAY, description |-> NoInfoName, year |-> 2024],
     [date |-> <<3, 5>>, type |-> WORKDAY, description |-> NoInfoName, year |-> 2024],
     [date |-> Saturday, type |-> WORKDAY, description |-> NoInfoName, year |-> 2024],
     [date |-> <<3, 9>>, type |-> HOLIDAY, description |-> NoInfoName, year |-> 2024]}

\* the dates is_workday is asked about
AskedDates == {Monday, Tuesday, Saturday, <<2024, 3, 10>>, <<2024, 1, 1>>}

\* the payloads a fetch for a year may return: the "holiday" object of the
\* response as a sequence of entries
Entry(date_str, h) == [date_str |-> date_str, holiday |-> h, name |-> NoInfoName]

Payloads(year) == {<<Entry(<<1, 1>>, TRUE)>>, <<Entry(<<year, 1, 1>>, FALSE)>>}

-----------------------------------------------------------------------------
(* State *)

NoCall == [op |-> "none"]

Idle == [step |-> "idle", i |-> 0]

EmptyCache == [y \in {Years[i] : i \in 1..3} |-> NoData]

NoSnapshot == [db |-> {}, holidays |-> {}, workdays |-> {}]

\* no message box is open
NoMessage == [kind |-> "none", text |-> "", error |-> ""]

\* messagebox.showinfo after force_update returned
UpdateSucceeded == [kind |-> "showinfo", text |-> "holiday data updated", error |-> ""]

\* messagebox.showerror after force_update raised e
UpdateFailed(e) == [kind |-> "showerror", text |-> "holiday data update failed", error |-> e]

\* messagebox.showerror after analyze_attendance raised e
AnalysisFailed(e) == [kind |-> "showerror", text |-> "file processing failed", error |-> e]

\* a process started on a store left by earlier runs
Init ==
    /\ today \in Todays
    /\ \E store \in SUBSET StoredRows :
          LET st == load_all_data(store, EmptyCache)
          IN  /\ db = st.db
              /\ cache = st.cache
              /\ holidays = st.holidays
              /\ workdays = st.workdays
    /\ pc = Idle
    /\ txn = db
    /\ pre = NoSnapshot
    /\ failed = {}
    /\ call = NoCall
    /\ shown = NoMessage

\* the first start of the program: no store, no cache
InitCalendar ==
    /\ today = Tuesday
    /\ db = {}
    /\ cache = EmptyCache
    /\ holidays = {}
    /\ workdays = {}
    /\ pc = Idle
    /\ txn = {}
    /\ pre = NoSnapshot
    /\ failed = {}
    /\ call = NoCall
    /\ shown = NoMessage

-----------------------------------------------------------------------------
(* Operations of the analysis: each is called when no call is pending and   *)
(* leaves what it was given and what it returned in call, until the caller  *)
(* has taken the result.                                                    *)

\* no call is pending
Ready == call = NoCall

IsWorkday(d) ==
    /\ call = NoCall
    /\ call' = [op |-> "is_workday", date |-> d, ret |-> is_workday(d)]
    /\ UNCHANGED <<calVars, today>>

CalculateOvertime(s, e, w) ==
    /\ call = NoCall
    /\ pc = Idle
    /\ call' = [op |-> "calculate_overtime", start_time |-> s, end_time |-> e,
                workday |-> w, ret |-> calculate_overtime(s, e, w)]
    /\ UNCHANGED <<calVars, today>>

ProcessRecord(row) ==
    /\ call = NoCall
    /\ pc = Idle
    /\ call' = [op |-> "process_record", row |-> row, ret |-> process_record(row)]
    /\ UNCHANGED <<calVars, today>>

AnalyzeAttendance(df) ==
    /\ call = NoCall
    /\ pc = Idle
    /\ call' = [op |-> "analyze_attendance", df |-> df, ret |-> analyze_attendance(df)]
    /\ UNCHANGED <<calVars, today>>

\* the caller takes the result
TakeResult ==
    /\ call # NoCall
    /\ call' = NoCall
    /\ UNCHANGED <<calVars, today>>

Next ==
    \/ Ready /\ \E d \in AskedDates : IsWorkday(d)
    \/ Ready /\ \E s \in StartStrings, e \in EndStrings, w \in BOOLEAN :
                    CalculateOvertime(s, e, w)
    \/ Ready /\ \E row \in Records : ProcessRecord(row)
    \/ Ready /\ \E df \in Sheets : AnalyzeAttendance(df)
    \/ TakeResult

Spec == Init /\ [][Next]_vars

-----------------------------------------------------------------------------
(* HolidayCalendar.force_update, step by step, and a restart of the program *)

At(step, i) == [step |-> step, i |-> i]

\* after the fetch of the i-th year: the next year, or the commit
AfterFetch(i) == IF i < Len(Years) THEN At("fetch", i + 1) ELSE At("commit", 0)

\* force_update is called: connect to the store
ForceUpdateStart ==
    /\ pc = Idle
    /\ Ready
    /\ pc' = At("fetch", 1)
    /\ txn' = db
    /\ pre' = [db |-> db, holidays |-> holidays, workdays |-> workdays]
    /\ failed' = {}
    /\ UNCHANGED <<db, cache, holidays, workdays, today, call, shown>>

\* _fetch_holiday_data returns the payload (status 200): it is written to the
\* cache and its rows are upserted in the open transaction
FetchOk(data) ==
    /\ pc.step = "fetch"
    /\ cache' = [cache EXCEPT ![Years[pc.i]] = Cached(data)]
    /\ txn' = ExecuteMany(txn, UpdateRows(Years[pc.i], data))
    /\ pc' = AfterFetch(pc.i)
    /\ UNCHANGED <<db, holidays, workdays, today, pre, failed, call, shown>>

\* _fetch_holiday_data returns None (status other than 200): continue
FetchNone ==
    /\ pc.step = "fetch"
    /\ failed' = failed \cup {Years[pc.i]}
    /\ pc' = AfterFetch(pc.i)
    /\ UNCHANGED <<db, cache, holidays, workdays, today, txn, pre, call, shown>>

\* requests.get raises (timeout, no connection): except branch, rollback
FetchRaise ==
    /\ pc.step = "fetch"
    /\ failed' = failed \cup {Years[pc.i]}
    /\ txn' = db
    /\ pc' = At("return", 0)
    /\ UNCHANGED <<db, cache, holidays, workdays, today, pre, call, shown>>

\* the payload was fetched and cached, cursor.executemany raises (store
\* locked or full): except branch, rollback
ExecuteRaise(data) ==
    /\ pc.step = "fetch"
    /\ cache' = [cache EXCEPT ![Years[pc.i]] = Cached(data)]
    /\ failed' = failed \cup {Years[pc.i]}
    /\ txn' = db
    /\ pc' = At("return", 0)
    /\ UNCHANGED <<db, holidays, workdays, today, pre, call, shown>>

\* conn.commit() raises: except branch, rollback
CommitRaise ==
    /\ pc.step = "commit"
    /\ failed' = {Years[i] : i \in 1..Len(Years)}
    /\ txn' = db
    /\ pc' = At("return", 0)
    /\ UNCHANGED <<db, cache, holidays, workdays, today, pre, call, shown>>

\* conn.commit()
Commit ==
    /\ pc.step = "commit"
    /\ db' = txn
    /\ pc' = At("clear_holidays", 0)
    /\ UNCHANGED <<cache, holidays, workdays, today, txn, pre, failed, call, shown>>

\* self.holidays.clear()
ClearHolidays ==
    /\ pc.step = "clear_holidays"
    /\ holidays' = {}
    /\ pc' = At("clear_workdays", 0)
    /\ UNCHANGED <<db, cache, workdays, today, txn, pre, failed, call, shown>>

\* self.workdays.clear()
ClearWorkdays ==
    /\ pc.step = "clear_workdays"
    /\ workdays' = {}
    /\ pc' = At("load", 1)
    /\ UNCHANGED <<db, cache, holidays, today, txn, pre, failed, call, shown>>

\* self._load_from_database(year) for the next year
Reload ==
    /\ pc.step = "load"
    /\ LET l == load_from_database(db, Years[pc.i], holidays, workdays)
       IN  /\ holidays' = l.holidays
           /\ workdays' = l.workdays
    /\ pc' = IF pc.i < Len(Years) THEN At("load", pc.i + 1) ELSE At("return", 0)
    /\ UNCHANGED <<db, cache, today, txn, pre, failed, call, shown>>

\* finally: conn.close(); force_update returns None and update_cache_data
\* shows the success box
ForceUpdateReturn ==
    /\ pc.step = "return"
    /\ pc' = At("message", 0)
    /\ shown' = UpdateSucceeded
    /\ UNCHANGED <<db, cache, holidays, workdays, today, txn, pre, failed, call>>

\* sqlite3.connect raises before the try block (the store cannot be opened):
\* force_update raises and update_cache_data shows the error box
ConnectRaise ==
    /\ pc = Idle
    /\ Ready
    /\ pc' = At("message", 0)
    /\ pre' = [db |-> db, holidays |-> holidays, workdays |-> workdays]
    /\ failed' = {Years[i] : i \in 1..Len(Years)}
    /\ shown' = UpdateFailed("unable to open database file")
    /\ UNCHANGED <<db, cache, holidays, workdays, today, txn, call>>

\* the message box is closed; finally: the button is enabled again
CloseMessage ==
    /\ pc.step = "message"
    /\ pc' = Idle
    /\ pre' = NoSnapshot
    /\ failed' = {}
    /\ shown' = NoMessage
    /\ UNCHANGED <<db, cache, holidays, workdays, today, txn, call>>

\* the program is started again on the store and the cache it left
LoadOnStart ==
    /\ pc = Idle
    /\ Ready
    /\ LET st == load_all_data(db, cache)
       IN  /\ db' = st.db
           /\ txn' = st.db
           /\ holidays' = st.holidays
           /\ workdays' = st.workdays
    /\ UNCHANGED <<cache, today, pc, pre, failed, call, shown>>

\* the dates is_workday is asked about while the calendar is refreshed
NewYearDays == {<<Years[i], 1, 1>> : i \in 1..Len(Years)}

NextCalendar ==
    \/ ForceUpdateStart
    \/ pc.step = "fetch" /\ \E data \in Payloads(Years[pc.i]) : FetchOk(data)
    \/ pc.step = "fetch" /\ \E data \in Payloads(Years[pc.i]) : ExecuteRaise(data)
    \/ FetchNone
    \/ FetchRaise
    \/ Commit
    \/ CommitRaise
    \/ ClearHolidays
    \/ ClearWorkdays
    \/ Reload
    \/ ForceUpdateReturn
    \/ ConnectRaise
    \/ CloseMessage
    \/ LoadOnStart
    \/ Ready /\ \E d \in NewYearDays : IsWorkday(d)
    \/ TakeResult

SpecCalendar == InitCalendar /\ [][NextCalendar]_vars

-----------------------------------------------------------------------------
(* Properties of the analysis, checked under Spec *)

Called(op) == call.op = op

\* the clock time a well-formed "HH:MM" input was written from
IsClock(s) == \E t \in ClockTimes : Fmt(t[1], t[2]) = s

ClockOf(s) == CHOOSE t \in ClockTimes : Fmt(t[1], t[2]) = s

IsNextDayClock(s) == \E t \in NextDayTimes : <<NEXT_DAY>> \o Fmt(t[1], t[2]) = s

NextDayClockOf(s) == CHOOSE t \in NextDayTimes : <<NEXT_DAY>> \o Fmt(t[1], t[2]) = s

Minute(t) == t[1] * 60 + t[2]

\* what C1 says _calculate_overtime returns for clock-in s, clock-out e
ExpectedOvertime(s, e, workday) ==
    IF ~workday THEN 0
    ELSE IF IsNextDayClock(e)
    THEN (Minute(NextDayClockOf(e)) + 1 + (Minute(<<23, 59>>) - Minute(ClockOf(s)))) - 600
    ELSE IF Minute(ClockOf(e)) <= Minute(<<18, 30>>)
    THEN (Minute(<<18, 0>>) - Minute(ClockOf(s))) - 570
    ELSE (Minute(ClockOf(e)) - Minute(ClockOf(s))) - 600

\* C1: for parseable clock-in s and clock-out e (e possibly with the next-day
\* marker) _calculate_overtime returns 0 on a non-workday, (minute of e + 1 +
\* minutes from s to 23:59) - 600 for a next-day e, (minutes from s to 18:00)
\* - 570 for e at or before 18:30, (minutes from s to e) - 600 for e after
\* 18:30; the value may be negative.
C1_OvertimeByBranch ==
    (/\ Called("calculate_overtime")
     /\ IsClock(call.start_time)
     /\ IsClock(call.end_time) \/ IsNextDayClock(call.end_time))
    => /\ ~call.ret.raised
       /\ call.ret.value =
              ExpectedOvertime(call.start_time, call.end_time, call.workday)

\* a workday call with clock-out between 18:00 and 18:30 and a negative result
C1_Witness ==
    /\ Called("calculate_overtime")
    /\ call.workday
    /\ call.start_time = Fmt(8, 40)
    /\ call.end_time = Fmt(18, 15)
    /\ call.ret = Return(0 - 10)

HasDate(row) == IsValidDate(row.date)

IsAbnormal(row) ==
    \/ row.work_status # NORMAL
    \/ (row.punch_count # NaN /\ row.punch_count # TWO_PUNCH)

\* C2 (as claimed): every record of a date other than today whose status is
\* not normal, or whose punch count is present and not two punches, is
\* classified overtime 0, not late, missing = its date.
C2_AbnormalIsMissing ==
    (/\ Called("process_record")
     /\ HasDate(call.row)
     /\ call.row.date # today
     /\ IsAbnormal(call.row))
    => call.ret = Outcome(0, FALSE, call.row.date)

SameTimeStrings(row) ==
    /\ row.start_time # NaN
    /\ row.end_time # NaN
    /\ row.start_time = row.end_time

ReachesCompute(row) ==
    /\ HasDate(row)
    /\ IsClock(row.start_time)
    /\ IsClock(row.end_time) \/ IsNextDayClock(row.end_time)
    /\ row.start_time # row.end_time
    /\ row.work_status = NORMAL
    /\ row.punch_count \in {NaN, TWO_PUNCH}

\* C4: for a record that reaches the compute rule the late flag is true iff
\* the date is a workday and the first punch is after 08:30 and at or before
\* 09:30; the outcome carries no missing date.
C4_LateWindow ==
    (Called("process_record") /\ ReachesCompute(call.row))
    => /\ ~call.ret.raised
       /\ call.ret.late =
              (/\ is_workday(call.row.date)
               /\ Minute(<<8, 30>>) < Minute(ClockOf(call.row.start_time))
               /\ Minute(ClockOf(call.row.start_time)) <= Minute(<<9, 30>>))
       /\ call.ret.missing = None

\* a workday record with first punch at 09:30 exactly, flagged late
C4_Witness ==
    /\ Called("process_record")
    /\ ReachesCompute(call.row)
    /\ is_workday(call.row.date)
    /\ call.row.start_time = Fmt(9, 30)
    /\ call.ret.late

Returned(op) == Called(op) /\ ~call.ret.raised

\* the records of a sheet, as positions of df
RecordsOf(df) == (HEADER_ROWS + 1)..Len(df)

BothTimesDiffer(row) ==
    /\ row.start_time # NaN
    /\ row.end_time # NaN
    /\ row.start_time # row.end_time

\* C5: the valid-punch-day count is the number of two-punch records that are
\* on a workday (whatever their status and times) or on a non-workday with
\* both punch times present and different.
C5_ValidDayCount ==
    Returned("analyze_attendance")
    => call.ret.valid_days =
           Cardinality({i \in RecordsOf(call.df) :
               /\ call.df[i].punch_count = TWO_PUNCH
               /\ \/ is_workday(call.df[i].date)
                  \/ BothTimesDiffer(call.df[i])})

\* two two-punch Saturday records on a non-workday Saturday, one with distinct
\* times and one with identical times: one valid day
C5_Witness ==
    /\ Returned("analyze_attendance")
    /\ ~is_workday(Saturday)
    /\ call.df[HEADER_ROWS + 1] = Record(Saturday, Fmt(9, 0), Fmt(13, 0), TWO_PUNCH, NORMAL)
    /\ Len(call.df) = HEADER_ROWS + 2
    /\ call.df[HEADER_ROWS + 2] = Record(Saturday, Fmt(9, 0), Fmt(9, 0), TWO_PUNCH, NORMAL)
    /\ call.ret.valid_days = 1

InList(d, list) == \E i \in 1..Len(list) : list[i] = d

Descending(list) ==
    \A i \in 1..Len(list) : \A j \in i..Len(list) : ~DateLess(list[i], list[j])

\* C6: the missing-punch list never holds the current date, holds the date of
\* every row the classifier flagged missing (workday or not), and is in
\* descending date order.
C6_MissingList ==
    Returned("analyze_attendance")
    => /\ ~InList(today, call.ret.missing_clockout_dates)
       /\ \A i \in RecordsOf(call.df) :
              process_record(call.df[i]).missing # None
              => InList(call.df[i].date, call.ret.missing_clockout_dates)
       /\ Descending(call.ret.missing_clockout_dates)

\* a sheet with an abnormal record of today before an abnormal record of a
\* non-workday: only the other date is listed
C6_Witness ==
    /\ Returned("analyze_attendance")
    /\ today = Tuesday
    /\ Len(call.df) = HEADER_ROWS + 2
    /\ call.df[HEADER_ROWS + 1] = Record(Tuesday, Fmt(8, 30), NaN, ONE_PUNCH, ABNORMAL)
    /\ call.df[HEADER_ROWS + 2] = Record(Saturday, NaN, NaN, NaN, ABNORMAL)
    /\ ~is_workday(Saturday)
    /\ call.ret.missing_clockout_dates = <<Saturday>>

\* the asked dates that fall on Monday to Friday
MondayToFriday == {Monday, Tuesday, <<2024, 1, 1>>}

\* C7: is_workday(d) is false when d is in the holiday set (also when it is in
\* both sets), true when d is in the compensatory set only, and otherwise true
\* exactly when d is Monday to Friday.
C7_WorkdayByCalendar ==
    Called("is_workday")
    => /\ call.date \in holidays => call.ret = FALSE
       /\ (call.date \in workdays /\ call.date \notin holidays) => call.ret = TRUE
       /\ (call.date \notin workdays /\ call.date \notin holidays)
          => call.ret = (call.date \in MondayToFriday)

\* a date in both sets, answered not a workday
C7_Witness ==
    /\ Called("is_workday")
    /\ call.date \in holidays \cap workdays
    /\ call.ret = FALSE

AscendingSheet(df) ==
    \A i \in RecordsOf(df) : \A j \in i..Len(df) : ~DateLess(df[j].date, df[i].date)

DescendingSheet(df) ==
    \A i \in RecordsOf(df) : \A j \in i..Len(df) : ~DateLess(df[i].date, df[j].date)

\* C8 (as claimed): for records supplied in ascending date order the start
\* date is the date of the first record and the end date that of the last
\* record, so start date <= end date.
C8_StartIsFirstRecord ==
    (Returned("analyze_attendance") /\ AscendingSheet(call.df))
    => /\ call.ret.start_date = call.df[HEADER_ROWS + 1].date
       /\ call.ret.end_date = call.df[Len(call.df)].date
       /\ ~DateLess(call.ret.end_date, call.ret.start_date)

\* C8 (amended): the records are reversed before they are read: the start date
\* is the date of the last record supplied and the end date that of the first
\* record supplied, so start date <= end date when the records are supplied in
\* descending date order.
C8_StartIsLastRecord ==
    Returned("analyze_attendance")
    => /\ call.ret.start_date = call.df[Len(call.df)].date
       /\ call.ret.end_date = call.df[HEADER_ROWS + 1].date
       /\ DescendingSheet(call.df)
          => ~DateLess(call.ret.end_date, call.ret.start_date)

\* a sheet of a Saturday record above a Monday record: Monday to Saturday
C8_Witness ==
    /\ Returned("analyze_attendance")
    /\ Len(call.df) = HEADER_ROWS + 2
    /\ call.df[HEADER_ROWS + 1].date = Saturday
    /\ call.df[HEADER_ROWS + 2].date = Monday
    /\ call.ret.start_date = Monday
    /\ call.ret.end_date = Saturday

\* the first-punch cell is absent or is not a time "HH:MM"
NoStartTime(row) == row.start_time = NaN \/ parse_time(row.start_time) = NoTime

\* the last-punch cell is absent or is neither a time "HH:MM" nor a next-day
\* time
NoEndTime(row) ==
    \/ row.end_time = NaN
    \/ parse_time(row.end_time) = NoTime /\ ~IsNextDayClock(row.end_time)

\* the record passes the in-progress rule and the status/punch-count rule
PassesStatusRule(row) ==
    /\ HasDate(row)
    /\ row.start_time # row.end_time
    /\ row.work_status = NORMAL
    /\ row.punch_count \in {NaN, TWO_PUNCH}

\* C12 (as claimed): a record that passes the in-progress rule and the
\* status/punch-count rule and whose first or last punch time is absent or
\* unparseable is classified overtime 0, not late, missing = its date (none
\* when the date is today), on a workday as on a non-workday; the classifier
\* does not raise.
C12_UnreadableTimeIsMissing ==
    (/\ Called("process_record")
     /\ PassesStatusRule(call.row)
     /\ NoStartTime(call.row) \/ NoEndTime(call.row))
    => call.ret = Outcome(0, FALSE, MissingUnlessToday(call.row.date))

\* the sum of the classifier's signed overtime minutes over the records of df
\* from the i-th on whose date is a workday
RECURSIVE WorkdayMinutes(_, _)
WorkdayMinutes(df, i) ==
    IF i > Len(df) THEN 0
    ELSE (IF is_workday(df[i].date) THEN process_record(df[i]).overtime ELSE 0)
         + WorkdayMinutes(df, i + 1)

\* the records of df on a workday that the classifier flags late
WorkdayLates(df) ==
    {i \in RecordsOf(df) : is_workday(df[i].date) /\ process_record(df[i]).late}

\* C13: when analyze_attendance succeeds the overtime hours are the sum of the
\* classifier's signed overtime minutes over the workday records, divided by
\* 60, and the late count is the number of workday records flagged late;
\* records on non-workdays add nothing to either total.
C13_WorkdayTotals ==
    Returned("analyze_attendance")
    => /\ call.ret.overtime_hours =
              [num |-> WorkdayMinutes(call.df, HEADER_ROWS + 1), den |-> 60]
       /\ call.ret.late_count = Cardinality(WorkdayLates(call.df))

\* a Saturday record with two different punch times and a late Monday record
\* of 10 minutes less than the standard day: -10/60 hours, one late day
C13_Witness ==
    /\ Returned("analyze_attendance")
    /\ ~is_workday(Saturday)
    /\ \E i \in RecordsOf(call.df) :
           /\ call.df[i].date = Saturday
           /\ call.df[i].start_time # call.df[i].end_time
    /\ \E i \in RecordsOf(call.df) : call.df[i].date = Monday
    /\ call.ret.overtime_hours = [num |-> 0 - 10, den |-> 60]
    /\ call.ret.late_count = 1

-----------------------------------------------------------------------------
(* Properties of the calendar, checked under SpecCalendar *)

\* the answer of is_workday for sets h and w
AnswerWith(h, w, d) ==
    IF d \in h THEN FALSE ELSE IF d \in w THEN TRUE ELSE weekday(d) < 5

DatesOfYear(y) ==
    {<<y, m, d>> : m \in 1..12, d \in 1..31} \ {t \in {<<y, m, d>> : m \in 1..12, d \in 29..31} : ~IsValidDate(t)}

RowsOfYear(store, y) == {r \in store : r.year = y}

AllYears == {Years[i] : i \in 1..Len(Years)}

\* C9 (as claimed): when a refresh ends in which the fetch for year Y failed,
\* the stored designations of Y and the is_workday answer for every date of Y
\* are as before the refresh; when the fetch failed for all three years the
\* store and both sets are as before.
C9_FailedYearUnchanged ==
    pc.step = "return"
    => /\ \A y \in failed :
              /\ RowsOfYear(db, y) = RowsOfYear(pre.db, y)
              /\ \A d \in DatesOfYear(y) :
                     is_workday(d) = AnswerWith(pre.holidays, pre.workdays, d)
       /\ failed = AllYears
          => /\ db = pre.db
             /\ holidays = pre.holidays
             /\ workdays = pre.workdays

\* the sets _load_from_database builds from a store, starting from empty sets
ReloadedFrom(store, h, w, years) ==
    IF years = <<>> THEN <<h, w>>
    ELSE LET a == load_from_database(store, years[1], h, w)
             b == load_from_database(store, years[2], a.holidays, a.workdays)
             c == load_from_database(store, years[3], b.holidays, b.workdays)
         IN  <<c.holidays, c.workdays>>

\* the refresh has committed and is replacing the sets
Committed == pc.step \in {"clear_holidays", "clear_workdays", "load"}

\* C10 (as claimed): an is_workday read at any step of a running refresh
\* observes the complete pair of sets of before the refresh or the complete
\* pair of after it, never an emptied or partly reloaded set.
C10_ReadSeesWholeSets ==
    [][(/\ pc.step \notin {"idle", "return", "message"}
        /\ call = NoCall
        /\ call'.op = "is_workday")
       => \/ <<holidays, workdays>> = <<pre.holidays, pre.workdays>>
          \/ Committed /\ <<holidays, workdays>> = ReloadedFrom(db, {}, {}, Years)]_vars

\* the refresh that has just reported went wrong: a fetch raised or returned
\* no data, or a store write raised
RefreshFailed == pc.step = "message" /\ failed # {}

\* C11 (as claimed): a failed refresh is reported with an outcome that differs
\* from the outcome of a successful refresh and from that of a failed
\* analysis; the caller is never shown the success box after a failure.
C11_FailureReported ==
    RefreshFailed
    => /\ shown # UpdateSucceeded
       /\ shown.kind = "showerror"
       /\ shown.text # AnalysisFailed("").text

\* the date token of a stored row is a full date of the row's year
CompleteRow(r) == Len(r.date) = 3 /\ r.date[1] = r.year

\* C14 (as claimed): every row written to the store for a year Y, by
\* force_update as by the promotion of a cache file at start, carries its date
\* token completed with Y, so that the same month-day of two years is held
\* in two rows and writing one year leaves the rows of the other years.
C14_StoredDatesComplete ==
    /\ \A r \in db \cup txn : CompleteRow(r)
    /\ \A r, q \in db : (r.date = q.date /\ r.year = q.year) => r = q

====
